---- MODULE Spec2Model ----
(***************************************************************************)
(* Model of the Snake Measurer service worker (src/sw.js): the install and *)
(* activate lifecycle handlers, the URL classifier and the fetch listener  *)
(* with its four caching strategies, run against the host's CacheStorage,  *)
(* network and client-control interfaces.                                  *)
(***************************************************************************)
EXTENDS Integers, Sequences, FiniteSets, TLC

(***************************************************************************)
(* Bounds of the model.                                                    *)
(***************************************************************************)
\* number of fetch events dispatched to the worker in one run
MaxReq == 2
\* number of install attempts the host makes (a failed install may be retried)
MaxAttempts == 2

\* sw.js:21, the {10,} of the content-hash regular expression
HexRunMin == 10

(***************************************************************************)
(* Strings the code inspects character by character are sequences of       *)
(* one-character strings; cache names are sequences of their words.        *)
(***************************************************************************)
StartsWith(s, p) == Len(s) >= Len(p) /\ SubSeq(s, 1, Len(p)) = p

EndsWith(s, p) == Len(s) >= Len(p) /\ SubSeq(s, Len(s) - Len(p) + 1, Len(s)) = p

HexChars == {"a", "b", "c", "d", "e", "f", "0", "1", "2", "3", "4", "5", "6", "7", "8", "9"}

\* a test without the quantifier: one hexadecimal character is enough
HasHexRunAny(path) == \E i \in 1..Len(path) : path[i] \in HexChars

\* /[a-f0-9]{10,}/.test(path)
HasHexRun(path) ==
    \E i \in 1..Len(path) :
        /\ i + HexRunMin - 1 <= Len(path)
        /\ \A j \in i..(i + HexRunMin - 1) : path[j] \in HexChars

Http == <<"h", "t", "t", "p">>

HttpColon == <<"h", "t", "t", "p", ":">>

HttpsColon == <<"h", "t", "t", "p", "s", ":">>

ExtColon == <<"b", "l", "o", "b", ":">>

\* var CACHE_VERSION = 'v3-auto-update'
CACHE_VERSION == <<"v3", "-", "auto", "-", "update">>

\* the literal 'snake-measurer-' of sw.js:6 and sw.js:56
Prefix == <<"snake", "-", "measurer", "-">>

\* var CACHE_NAME = 'snake-measurer-' + CACHE_VERSION
CACHE_NAME == Prefix \o CACHE_VERSION

\* a generation left behind by an earlier deployment
StaleName == Prefix \o <<"v2">>

\* a cache of the same origin that does not belong to this worker
OtherName == <<"other", "-", "cache">>

(***************************************************************************)
(* URLs.  A URL is the record new URL(...) yields; requests and cache keys *)
(* refer to URLs by a short identifier into URLTable.                      *)
(***************************************************************************)
AppHost == "evengard88.github.io"

DevHost == "127.0.0.1"

\* self.location of the deployed worker
Prod == [protocol |-> HttpsColon, hostname |-> AppHost]

\* self.location of a worker served over http from a loopback address
Dev == [protocol |-> HttpColon, hostname |-> DevHost]

Locations == {Prod, Dev}

P_root == <<"/">>

P_index == <<"/", "i", "n", "d", "e", "x", ".", "h", "t", "m", "l">>

P_styles == <<"/", "s", "t", "y", "l", "e", "s", ".", "c", "s", "s">>

P_compose == <<"/", "c", "o", "m", "p", "o", "s", "e", "A", "p", "p", ".", "j", "s">>

P_wasm == <<"/", "a", ".", "w", "a", "s", "m">>

P_json == <<"/", "d", ".", "j", "s", "o", "n">>

P_fb == <<"/", "f", "b", ".", "j", "s">>

P_font == <<"/", "f", ".", "t", "t", "f">>

P_page == <<"/", "p", ".", "h", "t", "m", "l">>

Url(proto, host, path) == [protocol |-> proto, hostname |-> host, pathname |-> path]

URLTable ==
    [ root       |-> Url(HttpsColon, AppHost, P_root),
      index      |-> Url(HttpsColon, AppHost, P_index),
      styles     |-> Url(HttpsColon, AppHost, P_styles),
      compose    |-> Url(HttpsColon, AppHost, P_compose),
      page       |-> Url(HttpsColon, AppHost, P_page),
      wasm       |-> Url(HttpsColon, AppHost, P_wasm),
      data       |-> Url(HttpsColon, AppHost, P_json),
      cdn        |-> Url(HttpsColon, "www.gstatic.com", P_fb),
      ext        |-> Url(HttpsColon, "fonts.example.org", P_font),
      blob       |-> Url(ExtColon, "", P_root),
      devroot    |-> Url(HttpColon, DevHost, P_root),
      devindex   |-> Url(HttpColon, DevHost, P_index),
      devstyles  |-> Url(HttpColon, DevHost, P_styles),
      devcompose |-> Url(HttpColon, DevHost, P_compose),
      insecure   |-> Url(HttpColon, DevHost, P_json),
      secured    |-> Url(HttpsColon, DevHost, P_json) ]

UrlIds == DOMAIN URLTable

UrlOf(u) == URLTable[u]

IdOf(url) == CHOOSE u \in UrlIds : URLTable[u] = url

\* url.origin
Origin(url) == <<url.protocol, url.hostname>>

\* var SHELL_ASSETS = ['./', './index.html', './styles.css', './composeApp.js']
SHELL_ASSETS == <<P_root, P_index, P_styles, P_compose>>

\* the request URL of a shell asset: its path resolved against the worker's location
ShellUrl(loc, i) == IdOf(Url(loc.protocol, loc.hostname, SHELL_ASSETS[i]))

ShellIdx == 1..Len(SHELL_ASSETS)

(***************************************************************************)
(* URL classifier.                                                         *)
(***************************************************************************)
isCacheFirstAsset(url) ==
    LET path == url.pathname IN
        \/ EndsWith(path, <<".", "w", "a", "s", "m">>)
        \/ (EndsWith(path, <<".", "j", "s">>) /\ HasHexRun(path))
        \/ EndsWith(path, <<".", "m", "j", "s">>)

isAppShellAsset(url) ==
    LET path == url.pathname IN
        \/ EndsWith(path, <<".", "c", "s", "s">>)
        \/ EndsWith(path, <<".", "h", "t", "m", "l">>)
        \/ path = <<"/">>
        \/ EndsWith(path, <<"/", "c", "o", "m", "p", "o", "s", "e", "A", "p", "p", ".", "j", "s">>)

isFirebaseCDN(url) == url.hostname = "www.gstatic.com"

(***************************************************************************)
(* Responses.  Undefined stands for JavaScript's undefined (a cache miss, *)
(* or a value that is no Response).                                        *)
(***************************************************************************)
Undefined == [body |-> -1, ok |-> FALSE, type |-> "undefined"]

Resp(b, o, t) == [body |-> b, ok |-> o, type |-> t]

\* the responses the network can give worker loc for url id u, with content b:
\* same-origin responses are basic; cross-origin ones are cors or opaque
NetResponses(loc, u, b) ==
    IF Origin(UrlOf(u)) = Origin(loc)
    THEN {Resp(b, TRUE, "basic"), Resp(b, FALSE, "basic")}
    ELSE {Resp(b, TRUE, "cors"), Resp(b, FALSE, "cors"), Resp(b, FALSE, "opaque")}

(***************************************************************************)
(* The host's CacheStorage: the caches in creation order, each a name and  *)
(* a map from the request URLs it holds to the stored responses.           *)
(***************************************************************************)
NoEntries == [u \in {} |-> Undefined]

HasCache(cs, name) == \E i \in 1..Len(cs) : cs[i].name = name

\* caches.open(name): creates the cache when it does not exist
CachesOpen(cs, name) ==
    IF HasCache(cs, name) THEN cs
    ELSE Append(cs, [name |-> name, entries |-> NoEntries])

\* the entries of the cache called name (none when it does not exist)
EntriesOf(cs, name) ==
    IF HasCache(cs, name)
    THEN cs[CHOOSE i \in 1..Len(cs) : cs[i].name = name].entries
    ELSE NoEntries

\* cache.match(request) on one cache's entries
Lookup(entries, u) == IF u \in DOMAIN entries THEN entries[u] ELSE Undefined

\* a put that keeps the entry already stored under u: first write wins
PutEntryIfAbsent(entries, u, resp) ==
    [k \in (DOMAIN entries) \cup {u} |-> IF k \in DOMAIN entries THEN entries[k] ELSE resp]

\* the entries with the response stored under u
PutEntry(entries, u, resp) ==
    [k \in (DOMAIN entries) \cup {u} |-> IF k = u THEN resp ELSE entries[k]]

\* cache.put(request, response) on the cache called name
CachePut(cs, name, u, resp) ==
    [i \in 1..Len(cs) |->
        IF cs[i].name = name
        THEN [cs[i] EXCEPT !.entries = PutEntry(@, u, resp)]
        ELSE cs[i]]

\* caches.match(request): the first match over all caches, in creation order
CachesMatch(cs, u) ==
    LET hits == {i \in 1..Len(cs) : u \in DOMAIN cs[i].entries} IN
        IF hits = {} THEN Undefined
        ELSE cs[CHOOSE i \in hits : \A j \in hits : i <= j].entries[u]

\* caches.keys()
CachesKeys(cs) == [i \in 1..Len(cs) |-> cs[i].name]

\* caches.delete(name)
CachesDelete(cs, name) == SelectSeq(cs, LAMBDA c : c.name # name)

(***************************************************************************)
(* State.                                                                  *)
(***************************************************************************)
VARIABLES
    location,     \* self.location of this worker
    caches,       \* the origin's CacheStorage
    wstate,       \* the worker's lifecycle state, as the host keeps it
    attempts,     \* install attempts made so far
    ipc,          \* position of the install handler's promise chain
    batch,        \* shell assets cache.addAll has fetched so far
    ifetches,     \* fetches cache.addAll has issued in this attempt
    skipWaiting,  \* the worker's skip-waiting flag
    apc,          \* position of the activate handler's promise chain
    names,        \* the names caches.keys() resolved with
    pendingDel,   \* caches.delete calls issued and not yet completed
    claimReq,     \* clients.claim() has been called
    claimed,      \* the open client pages are controlled by this worker
    req           \* the fetch events: one record per request

vars == <<location, caches, wstate, attempts, ipc, batch, ifetches, skipWaiting,
          apc, names, pendingDel, claimReq, claimed, req>>

lifeVars == <<wstate, attempts, ipc, batch, ifetches, skipWaiting>>

actVars == <<apc, names, pendingDel, claimReq, claimed>>

Reqs == 1..MaxReq

\* content stored by earlier deployments and by other applications of the origin
OldResp == Resp(0, TRUE, "basic")

\* content of the shell assets at the time of this deployment
ShellResp == Resp(1, TRUE, "basic")

\* the content the network serves to the fetch of request r: every fetch gets
\* a response of its own
NetBody(r) == r + 1

StaleCache(name) ==
    [name |-> name, entries |-> [u \in {"root", "wasm"} |-> OldResp]]

OtherCache ==
    [name |-> OtherName, entries |-> [u \in {"wasm", "cdn", "data"} |-> OldResp]]

\* the cache storages the worker may find when it is first installed
InitCaches ==
    { <<>>,
      <<StaleCache(Prefix \o <<"v1">>), OtherCache, StaleCache(StaleName)>> }

IdleReq ==
    [pc |-> "idle", method |-> "-", url |-> "-", branch |-> "-",
     cached |-> Undefined, net |-> Undefined, settle |-> "none", value |-> Undefined,
     nfetch |-> 0, fetched |-> "-", wpc |-> "none", warned |-> FALSE]

Init ==
    /\ location \in Locations
    /\ caches \in InitCaches
    /\ wstate = "parsed"
    /\ attempts = 1
    /\ ipc = "idle"
    /\ batch = {}
    /\ ifetches = 0
    /\ skipWaiting = FALSE
    /\ apc = "idle"
    /\ names = <<>>
    /\ pendingDel = {}
    /\ claimReq = FALSE
    /\ claimed = FALSE
    /\ req = [r \in Reqs |-> IdleReq]

(***************************************************************************)
(* Install: sw.js:40-48.                                                   *)
(***************************************************************************)
\* the install handler runs: event.waitUntil(caches.open(...)...) starts the
\* chain, then self.skipWaiting() is called before the handler returns
InstallDispatch ==
    /\ wstate = "parsed"
    /\ wstate' = "installing"
    /\ ipc' = "open"
    /\ skipWaiting' = TRUE
    /\ UNCHANGED <<location, caches, attempts, batch, ifetches, actVars, req>>

\* caches.open(CACHE_NAME) resolves; cache.addAll(SHELL_ASSETS) issues its fetches
InstallOpen ==
    /\ ipc = "open"
    /\ caches' = CachesOpen(caches, CACHE_NAME)
    /\ ipc' = "addAll"
    /\ batch' = {}
    /\ ifetches' = Len(SHELL_ASSETS)
    /\ UNCHANGED <<location, wstate, attempts, skipWaiting, actVars, req>>

\* what cache.addAll writes when every fetch succeeded
AddAllResolved(cs, loc, got) ==
    LET keys == {ShellUrl(loc, i) : i \in got} IN
        [i \in 1..Len(cs) |->
            IF cs[i].name = CACHE_NAME
            THEN [cs[i] EXCEPT !.entries =
                    [k \in (DOMAIN @) \cup keys |-> IF k \in keys THEN ShellResp ELSE @[k]]]
            ELSE cs[i]]

\* an addAll that keeps what it had fetched when one of its fetches fails
AddAllPartial(cs, loc, got) == AddAllResolved(cs, loc, got)

\* what cache.addAll leaves in the storage when one of its fetches failed,
\* having fetched the assets in got: nothing is written
AddAllRejected(cs, loc, got) == cs

\* an install chain that swallows the failure of addAll
InstallSettledLenient(fulfilled) == "installed"

\* the state the host gives the worker when the promise passed to
\* event.waitUntil of the install event settles
InstallSettled(fulfilled) == IF fulfilled THEN "installed" ELSE "redundant"

\* the fetch of one shell asset resolves with a success status
InstallAssetOk(i) ==
    /\ ipc = "addAll"
    /\ i \in ShellIdx \ batch
    /\ batch' = batch \cup {i}
    /\ UNCHANGED <<location, caches, wstate, attempts, ipc, ifetches, skipWaiting,
                   actVars, req>>

\* the fetch of one shell asset rejects or resolves with an error status:
\* addAll rejects, and with it the promise the install event waits for
InstallAssetFail(i) ==
    /\ ipc = "addAll"
    /\ i \in ShellIdx \ batch
    /\ caches' = AddAllRejected(caches, location, batch)
    /\ ipc' = "failed"
    /\ wstate' = InstallSettled(FALSE)
    /\ UNCHANGED <<location, attempts, batch, ifetches, skipWaiting, actVars, req>>

\* every fetch of addAll has succeeded: the batch is written and install ends
InstallCommit ==
    /\ ipc = "addAll"
    /\ batch = ShellIdx
    /\ caches' = AddAllResolved(caches, location, batch)
    /\ ipc' = "done"
    /\ wstate' = InstallSettled(TRUE)
    /\ UNCHANGED <<location, attempts, batch, ifetches, skipWaiting, actVars, req>>

\* caches.open rejects (storage unavailable): install fails
InstallOpenFail ==
    /\ ipc = "open"
    /\ ipc' = "failed"
    /\ wstate' = InstallSettled(FALSE)
    /\ UNCHANGED <<location, caches, attempts, batch, ifetches, skipWaiting, actVars,
                   req>>

\* the host installs the same script again after a failed install
InstallRetry ==
    /\ wstate = "redundant"
    /\ attempts < MaxAttempts
    /\ attempts' = attempts + 1
    /\ wstate' = "parsed"
    /\ ipc' = "idle"
    /\ batch' = {}
    /\ ifetches' = 0
    /\ skipWaiting' = FALSE
    /\ UNCHANGED <<location, caches, actVars, req>>

(***************************************************************************)
(* Activate: sw.js:51-63.                                                  *)
(***************************************************************************)
\* a filter that forgets to spare the current generation
StaleNamesAll(ns) ==
    {ns[i] : i \in {j \in 1..Len(ns) : StartsWith(ns[j], Prefix)}}

\* names.filter(name => name.startsWith('snake-measurer-') && name !== CACHE_NAME)
StaleNames(ns) ==
    {ns[i] : i \in {j \in 1..Len(ns) : StartsWith(ns[j], Prefix) /\ ns[j] # CACHE_NAME}}

\* the host activates an installed worker whose skip-waiting flag is set while
\* pages of the previous version are open; the activate handler runs:
\* event.waitUntil(caches.keys()...) starts the chain, then
\* self.clients.claim() is called before the handler returns
ActivateDispatch ==
    /\ wstate = "installed"
    /\ skipWaiting
    /\ wstate' = "activating"
    /\ apc' = "keys"
    /\ claimReq' = TRUE
    /\ UNCHANGED <<location, caches, attempts, ipc, batch, ifetches, skipWaiting,
                   names, pendingDel, claimed, req>>

\* caches.keys() resolves; a caches.delete is issued for every stale name
ActivateKeys ==
    /\ apc = "keys"
    /\ names' = CachesKeys(caches)
    /\ pendingDel' = StaleNames(CachesKeys(caches))
    /\ apc' = "deleting"
    /\ UNCHANGED <<location, caches, lifeVars, claimReq, claimed, req>>

\* one caches.delete completes
ActivateDelete(n) ==
    /\ apc = "deleting"
    /\ n \in pendingDel
    /\ caches' = CachesDelete(caches, n)
    /\ pendingDel' = pendingDel \ {n}
    /\ UNCHANGED <<location, lifeVars, apc, names, claimReq, claimed, req>>

\* Promise.all resolves, and with it the promise the activate event waits for
ActivateDone ==
    /\ apc = "deleting"
    /\ pendingDel = {}
    /\ apc' = "done"
    /\ wstate' = "activated"
    /\ UNCHANGED <<location, caches, attempts, ipc, batch, ifetches, skipWaiting,
                   names, pendingDel, claimReq, claimed, req>>

\* the host carries out clients.claim(): the open pages get this worker as
\* their controller
ClaimClients ==
    /\ claimReq
    /\ ~claimed
    /\ wstate \in {"activating", "activated"}
    /\ claimed' = TRUE
    /\ UNCHANGED <<location, caches, lifeVars, apc, names, pendingDel, claimReq, req>>

(***************************************************************************)
(* Fetch: sw.js:66-167.                                                    *)
(***************************************************************************)
\* the requests the pages of a worker at loc make
ReqInputs(loc) ==
    IF loc = Prod
    THEN ({"GET"} \X {"root", "page", "wasm", "data", "cdn", "ext", "blob"}) \cup {<<"POST", "data">>}
    ELSE {<<"GET", "insecure">>, <<"GET", "cdn">>}

\* a write condition that forgets the status check
CacheableAnyStatus(resp) == resp.type # "opaque"

\* response.ok && response.type !== 'opaque'
Cacheable(resp) == resp.ok /\ resp.type # "opaque"

\* a write condition of the default branch that forgets the origin check
CacheableDefaultAnyOrigin(resp, url, loc) == resp.ok /\ resp.type # "opaque"

\* response.ok && response.type !== 'opaque' && url.origin === self.location.origin
CacheableDefault(resp, url, loc) ==
    resp.ok /\ resp.type # "opaque" /\ Origin(url) = Origin(loc)

\* a guard that never rewrites
ForceHttpsNever(url, loc) == FALSE

\* url.origin === self.location.origin && url.protocol === 'http:'
\*     && self.location.hostname !== 'localhost'
ForceHttps(url, loc) ==
    Origin(url) = Origin(loc) /\ url.protocol = HttpColon /\ loc.hostname # "localhost"

\* a filter that lets every method through to the strategies
InterceptedAnyMethod(m, url) == StartsWith(url.protocol, Http)

\* the two early returns of the listener: only GET requests over http(s) go on
Intercepted(m, url) == m = "GET" /\ StartsWith(url.protocol, Http)

\* a chain of tests that asks for the CDN host first
ClassifyHostFirst(url) ==
    IF isFirebaseCDN(url) THEN "cdn"
    ELSE IF isCacheFirstAsset(url) THEN "cf"
    ELSE IF isAppShellAsset(url) THEN "swr"
    ELSE "default"

\* the chain of if statements that picks the strategy: the first test that
\* holds decides
Classify(url) ==
    IF isCacheFirstAsset(url) THEN "cf"
    ELSE IF isAppShellAsset(url) THEN "swr"
    ELSE IF isFirebaseCDN(url) THEN "cdn"
    ELSE "default"

\* the branch of the listener a GET http(s) request takes
Branch(url, loc) ==
    IF ForceHttps(url, loc) THEN "guard" ELSE Classify(url)

\* a cache-first branch that goes to the network whatever the lookup found
CacheHitNever(cached) == FALSE

\* if (cached) return cached;
CacheHit(cached) == cached # Undefined

\* an app-shell branch that returns fetchPromise whatever the lookup found
ServeStaleNever(cached) == FALSE

\* return cached || fetchPromise: TRUE when cached is what is returned
ServeStale(cached) == cached # Undefined

\* a catch handler that answers with a made-up response when offline
SWRCatchOffline(cached) == Resp(0, TRUE, "basic")

\* .catch(function() { return cached; }) of the app-shell branch
SWRCatch(cached) == cached

\* the name passed to caches.open by the fire-and-forget cache writes
WriteTarget == CACHE_NAME

\* what the page gets from respondWith: a network error when the promise
\* rejects or resolves with something that is no Response
Outcome(q) ==
    CASE q.settle = "none" -> "passthrough"
      [] q.settle = "pending" -> "pending"
      [] q.settle = "rejected" -> "neterror"
      [] q.settle = "resolved" /\ q.value = Undefined -> "neterror"
      [] OTHER -> "response"

Set(r, q) == req' = [req EXCEPT ![r] = q]

\* the listener runs for fetch event r, up to its first suspension point
Listener(r) ==
    /\ req[r].pc = "idle"
    /\ \A q \in Reqs : q < r => req[q].pc # "idle"
    /\ \E in \in ReqInputs(location) :
       LET m == in[1]
           u == in[2]
           url == UrlOf(u)
           q0 == [req[r] EXCEPT !.method = m, !.url = u]
       IN
        IF ~Intercepted(m, url)
        THEN Set(r, [q0 EXCEPT !.pc = "passthrough", !.branch = "none"])
        ELSE LET b == Branch(url, location) IN
            CASE b = "guard" ->
                    Set(r, [q0 EXCEPT !.pc = "guard_fetch", !.branch = b, !.settle = "pending",
                                      !.nfetch = 1,
                                      !.fetched = IdOf([url EXCEPT !.protocol = HttpsColon])])
              [] b = "cf" ->
                    Set(r, [q0 EXCEPT !.pc = "cf_match", !.branch = b, !.settle = "pending"])
              [] b = "swr" ->
                    Set(r, [q0 EXCEPT !.pc = "swr_match", !.branch = b, !.settle = "pending"])
              [] OTHER ->
                    Set(r, [q0 EXCEPT !.pc = "nf_fetch", !.branch = b, !.settle = "pending",
                                      !.nfetch = 1, !.fetched = u])

\* a page this worker controls makes a request
FetchEvent(r) ==
    /\ wstate = "activated"
    /\ claimed
    /\ Listener(r)
    /\ UNCHANGED <<location, caches, lifeVars, actVars>>

\* the guard's fetch(url.toString()) resolves
GuardResolve(r) ==
    /\ req[r].pc = "guard_fetch"
    /\ \E resp \in NetResponses(location, req[r].fetched, NetBody(r)) :
        Set(r, [req[r] EXCEPT !.pc = "done", !.net = resp, !.settle = "resolved",
                              !.value = resp])
    /\ UNCHANGED <<location, caches, lifeVars, actVars>>

\* the guard's fetch rejects
GuardReject(r) ==
    /\ req[r].pc = "guard_fetch"
    /\ Set(r, [req[r] EXCEPT !.pc = "done", !.settle = "rejected"])
    /\ UNCHANGED <<location, caches, lifeVars, actVars>>

\* cache-first: caches.match(event.request) resolves
CFMatch(r) ==
    /\ req[r].pc = "cf_match"
    /\ LET cached == CachesMatch(caches, req[r].url) IN
        IF CacheHit(cached)
        THEN Set(r, [req[r] EXCEPT !.pc = "done", !.cached = cached,
                                   !.settle = "resolved", !.value = cached])
        ELSE Set(r, [req[r] EXCEPT !.pc = "cf_fetch", !.cached = cached,
                                   !.nfetch = @ + 1, !.fetched = req[r].url])
    /\ UNCHANGED <<location, caches, lifeVars, actVars>>

\* a cache-first branch that hands the response over only when the write of
\* it has completed
CFResolveAwaitWrite(r) ==
    /\ req[r].pc = "cf_fetch"
    /\ \E resp \in NetResponses(location, req[r].fetched, NetBody(r)) :
        IF Cacheable(resp)
        THEN Set(r, [req[r] EXCEPT !.pc = "done", !.net = resp, !.wpc = "open"])
        ELSE Set(r, [req[r] EXCEPT !.pc = "done", !.net = resp, !.settle = "resolved",
                                   !.value = resp])
    /\ UNCHANGED <<location, caches, lifeVars, actVars>>

\* cache-first: fetch(event.request) resolves
CFResolve(r) ==
    /\ req[r].pc = "cf_fetch"
    /\ \E resp \in NetResponses(location, req[r].fetched, NetBody(r)) :
        Set(r, [req[r] EXCEPT !.pc = "done", !.net = resp, !.settle = "resolved",
                              !.value = resp,
                              !.wpc = IF Cacheable(resp) THEN "open" ELSE "none"])
    /\ UNCHANGED <<location, caches, lifeVars, actVars>>

\* cache-first: fetch(event.request) rejects
CFReject(r) ==
    /\ req[r].pc = "cf_fetch"
    /\ Set(r, [req[r] EXCEPT !.pc = "done", !.settle = "rejected"])
    /\ UNCHANGED <<location, caches, lifeVars, actVars>>

\* stale-while-revalidate: caches.match resolves, the fetch is issued, and
\* the promise given to respondWith resolves with cached when there is one
SWRMatch(r) ==
    /\ req[r].pc = "swr_match"
    /\ LET cached == CachesMatch(caches, req[r].url) IN
        IF ServeStale(cached)
        THEN Set(r, [req[r] EXCEPT !.pc = "swr_fetch", !.cached = cached,
                                   !.nfetch = @ + 1, !.fetched = req[r].url,
                                   !.settle = "resolved", !.value = cached])
        ELSE Set(r, [req[r] EXCEPT !.pc = "swr_fetch", !.cached = cached,
                                   !.nfetch = @ + 1, !.fetched = req[r].url])
    /\ UNCHANGED <<location, caches, lifeVars, actVars>>

\* stale-while-revalidate: the fetch resolves
SWRResolve(r) ==
    /\ req[r].pc = "swr_fetch"
    /\ \E resp \in NetResponses(location, req[r].fetched, NetBody(r)) :
        LET q1 == [req[r] EXCEPT !.pc = "done", !.net = resp,
                                 !.wpc = IF Cacheable(resp) THEN "open" ELSE "none"]
        IN
            IF req[r].settle = "pending"
            THEN Set(r, [q1 EXCEPT !.settle = "resolved", !.value = resp])
            ELSE Set(r, q1)
    /\ UNCHANGED <<location, caches, lifeVars, actVars>>

\* stale-while-revalidate: the fetch rejects and the catch handler yields cached
SWRReject(r) ==
    /\ req[r].pc = "swr_fetch"
    /\ IF req[r].settle = "pending"
       THEN Set(r, [req[r] EXCEPT !.pc = "done", !.settle = "resolved",
                                  !.value = SWRCatch(req[r].cached)])
       ELSE Set(r, [req[r] EXCEPT !.pc = "done"])
    /\ UNCHANGED <<location, caches, lifeVars, actVars>>

\* a network-first branch that treats an error status like a failed fetch and
\* goes to the cache
NFResolveStatusFallback(r) ==
    /\ req[r].pc = "nf_fetch"
    /\ \E resp \in NetResponses(location, req[r].fetched, NetBody(r)) :
        IF resp.ok \/ resp.type = "opaque"
        THEN LET store == IF req[r].branch = "cdn"
                          THEN Cacheable(resp)
                          ELSE CacheableDefault(resp, UrlOf(req[r].url), location)
             IN Set(r, [req[r] EXCEPT !.pc = "done", !.net = resp, !.settle = "resolved",
                                       !.value = resp,
                                       !.wpc = IF store THEN "open" ELSE "none"])
        ELSE Set(r, [req[r] EXCEPT !.pc = "nf_fallback", !.net = resp])
    /\ UNCHANGED <<location, caches, lifeVars, actVars>>

\* network-first (CDN and default branches): the fetch resolves
NFResolve(r) ==
    /\ req[r].pc = "nf_fetch"
    /\ \E resp \in NetResponses(location, req[r].fetched, NetBody(r)) :
        LET store == IF req[r].branch = "cdn"
                     THEN Cacheable(resp)
                     ELSE CacheableDefault(resp, UrlOf(req[r].url), location)
        IN Set(r, [req[r] EXCEPT !.pc = "done", !.net = resp, !.settle = "resolved",
                                  !.value = resp,
                                  !.wpc = IF store THEN "open" ELSE "none"])
    /\ UNCHANGED <<location, caches, lifeVars, actVars>>

\* a network-first branch without the catch handler: the rejection reaches
\* respondWith
NFRejectNoFallback(r) ==
    /\ req[r].pc = "nf_fetch"
    /\ Set(r, [req[r] EXCEPT !.pc = "done", !.settle = "rejected"])
    /\ UNCHANGED <<location, caches, lifeVars, actVars>>

\* network-first: the fetch rejects and the catch handler calls caches.match
NFReject(r) ==
    /\ req[r].pc = "nf_fetch"
    /\ Set(r, [req[r] EXCEPT !.pc = "nf_fallback"])
    /\ UNCHANGED <<location, caches, lifeVars, actVars>>

\* network-first: the fallback's caches.match(event.request) resolves
NFFallback(r) ==
    /\ req[r].pc = "nf_fallback"
    /\ LET cached == CachesMatch(caches, req[r].url) IN
        Set(r, [req[r] EXCEPT !.pc = "done", !.cached = cached,
                              !.settle = "resolved", !.value = cached])
    /\ UNCHANGED <<location, caches, lifeVars, actVars>>

\* a fire-and-forget write: caches.open(CACHE_NAME) resolves and cache.put is called
WriteOpen(r) ==
    /\ req[r].wpc = "open"
    /\ caches' = CachesOpen(caches, WriteTarget)
    /\ Set(r, [req[r] EXCEPT !.wpc = "put"])
    /\ UNCHANGED <<location, lifeVars, actVars>>

\* a fire-and-forget write: caches.open rejects; nothing handles the rejection
WriteOpenFail(r) ==
    /\ req[r].wpc = "open"
    /\ Set(r, [req[r] EXCEPT !.wpc = "openfailed"])
    /\ UNCHANGED <<location, caches, lifeVars, actVars>>

\* a fire-and-forget write: cache.put(event.request, clone) completes
WritePut(r) ==
    /\ req[r].wpc = "put"
    /\ caches' = CachePut(caches, WriteTarget, req[r].url, req[r].net)
    /\ Set(r, [req[r] EXCEPT !.wpc = "stored"])
    /\ UNCHANGED <<location, lifeVars, actVars>>

\* a fire-and-forget write: cache.put rejects and the catch handler warns
WritePutFail(r) ==
    /\ req[r].wpc = "put"
    /\ Set(r, [req[r] EXCEPT !.wpc = "putfailed", !.warned = TRUE])
    /\ UNCHANGED <<location, caches, lifeVars, actVars>>

(***************************************************************************)
(* The specification.                                                      *)
(***************************************************************************)
Next ==
    \/ InstallDispatch
    \/ InstallOpen
    \/ InstallOpenFail
    \/ \E i \in ShellIdx : InstallAssetOk(i)
    \/ \E i \in ShellIdx : InstallAssetFail(i)
    \/ InstallCommit
    \/ InstallRetry
    \/ ActivateDispatch
    \/ ActivateKeys
    \/ \E n \in pendingDel : ActivateDelete(n)
    \/ ActivateDone
    \/ ClaimClients
    \/ \E r \in Reqs : FetchEvent(r)
    \/ \E r \in Reqs : GuardResolve(r)
    \/ \E r \in Reqs : GuardReject(r)
    \/ \E r \in Reqs : CFMatch(r)
    \/ \E r \in Reqs : CFResolve(r)
    \/ \E r \in Reqs : CFReject(r)
    \/ \E r \in Reqs : SWRMatch(r)
    \/ \E r \in Reqs : SWRResolve(r)
    \/ \E r \in Reqs : SWRReject(r)
    \/ \E r \in Reqs : NFResolve(r)
    \/ \E r \in Reqs : NFReject(r)
    \/ \E r \in Reqs : NFFallback(r)
    \/ \E r \in Reqs : WriteOpen(r)
    \/ \E r \in Reqs : WriteOpenFail(r)
    \/ \E r \in Reqs : WritePut(r)
    \/ \E r \in Reqs : WritePutFail(r)

Spec == Init /\ [][Next]_vars

(***************************************************************************)
(* Properties.                                                             *)
(***************************************************************************)
\* the caches that hold an entry for url id u
Holders(cs, u) == {i \in 1..Len(cs) : u \in DOMAIN cs[i].entries}

\* the entry of the current generation for url id u
CurrentEntry(cs, u) == Lookup(EntriesOf(cs, CACHE_NAME), u)

\* the network fetch of request record q has failed
FetchFailed(q) == q.nfetch > 0 /\ q.net = Undefined /\ q.pc \in {"nf_fallback", "done"}

\* C1: a cache-first request whose cache lookup found an entry is answered
\* with that entry, at the moment the lookup resolves, and never issues a
\* network fetch or a cache write, whatever other requests are doing.
C1_CacheFirstHit ==
    \A r \in Reqs :
        (req[r].branch = "cf" /\ req[r].cached # Undefined) =>
            /\ req[r].nfetch = 0
            /\ req[r].pc = "done"
            /\ req[r].settle = "resolved"
            /\ req[r].value = req[r].cached
            /\ req[r].net = Undefined
            /\ req[r].wpc = "none"

\* a cache-first request has been answered from the cache while another
\* request is in flight
C1_Witness ==
    \E r, q \in Reqs :
        /\ req[r].branch = "cf" /\ req[r].cached # Undefined
        /\ Outcome(req[r]) = "response"
        /\ q # r /\ req[q].pc \notin {"idle", "done", "passthrough"}

\* the step in which the fallback lookup of a network-first request resolves
C2_Step ==
    \A r \in Reqs :
        (req[r].pc = "nf_fallback" /\ req'[r].pc = "done") =>
            LET u == req[r].url
                hs == Holders(caches, u)
            IN  IF hs # {}
                THEN /\ Outcome(req'[r]) = "response"
                     /\ \E i \in hs : req'[r].value = caches[i].entries[u]
                ELSE Outcome(req'[r]) = "neterror"

\* the states of a network-first request whose fetch has failed
C2_State ==
    \A r \in Reqs :
        (req[r].branch \in {"cdn", "default"} /\ FetchFailed(req[r])) =>
            /\ req[r].nfetch = 1
            /\ req[r].wpc = "none"
            /\ req[r].pc = "nf_fallback" => req[r].settle = "pending"
            /\ req[r].pc = "done" =>
                (req[r].settle = "resolved" /\ req[r].value = req[r].cached)

\* C2: in the network-first branches (CDN and default) a failed fetch leads to
\* the cache lookup; when a cache holds an entry for U as the lookup resolves,
\* the request resolves to a cached entry for U, and when no cache holds one
\* the page gets a network error and no response.
C2_NetworkFirstFallback == [][C2_Step /\ C2_State']_vars

\* one network-first request fell back to a cached entry and another, with
\* nothing cached, failed
C2_Witness ==
    \E r, q \in Reqs :
        /\ req[r].branch \in {"cdn", "default"} /\ FetchFailed(req[r])
        /\ req[r].pc = "done" /\ Outcome(req[r]) = "response"
        /\ req[q].branch \in {"cdn", "default"} /\ FetchFailed(req[q])
        /\ req[q].pc = "done" /\ Outcome(req[q]) = "neterror"

\* the fire-and-forget write of request r completes in this step
PutDone(r) == req[r].wpc = "put" /\ req'[r].wpc = "stored"

\* the states of a stale-while-revalidate request that found a cached entry
C3_State ==
    \A r \in Reqs :
        (req[r].branch = "swr" /\ req[r].cached # Undefined) =>
            /\ req[r].pc \in {"swr_fetch", "done"}
            /\ req[r].settle = "resolved"
            /\ req[r].value = req[r].cached
            /\ req[r].nfetch = 1
            /\ (req[r].pc = "done" /\ req[r].net # Undefined) =>
                (req[r].wpc # "none" <=> (req[r].net.ok /\ req[r].net.type # "opaque"))
            /\ (req[r].wpc = "stored" /\ \A q \in Reqs : q # r => req[q].url # req[r].url) =>
                CurrentEntry(caches, req[r].url) = req[r].net

\* the step in which the revalidation write completes
C3_Step ==
    \A r \in Reqs :
        (req[r].branch = "swr" /\ req[r].cached # Undefined /\ PutDone(r)) =>
            CurrentEntry(caches', req[r].url) = req[r].net

C4_State ==
    \A r \in Reqs :
        (req[r].branch = "swr" /\ req[r].pc \in {"swr_fetch", "done"}
            /\ req[r].cached = Undefined) =>
            /\ req[r].nfetch = 1
            /\ req[r].pc = "swr_fetch" => Outcome(req[r]) = "pending"
            /\ (req[r].pc = "done" /\ req[r].net # Undefined) =>
                /\ req[r].settle = "resolved" /\ req[r].value = req[r].net
                /\ req[r].wpc # "none" <=> (req[r].net.ok /\ req[r].net.type # "opaque")
            /\ (req[r].pc = "done" /\ req[r].net = Undefined) =>
                /\ Outcome(req[r]) = "neterror"
                /\ req[r].wpc = "none"

\* the step in which the write of the network response completes
C4_Step ==
    \A r \in Reqs :
        (req[r].branch = "swr" /\ req[r].cached = Undefined /\ PutDone(r)) =>
            CurrentEntry(caches', req[r].url) = req[r].net

\* C4: a stale-while-revalidate request that found no cached entry is answered
\* with the network response, and a write of it to the current generation is
\* started exactly when it has a success status and is not opaque (the entry
\* is that response when the write completes); when the fetch fails the page
\* gets a network error and nothing is written.
C4_StaleMiss == [][C4_State' /\ C4_Step]_vars

\* one request without a cached entry got and stored the network response,
\* another one failed with the network
C4_Witness ==
    \E r, q \in Reqs :
        /\ req[r].branch = "swr" /\ req[r].cached = Undefined /\ req[r].pc = "done"
        /\ req[r].wpc = "stored" /\ Outcome(req[r]) = "response"
        /\ req[q].branch = "swr" /\ req[q].cached = Undefined /\ req[q].pc = "done"
        /\ req[q].net = Undefined /\ Outcome(req[q]) = "neterror"

\* the states of a cache-first request whose lookup found nothing
C5_State ==
    \A r \in Reqs :
        (req[r].branch = "cf" /\ req[r].pc \in {"cf_fetch", "done"}
            /\ req[r].cached = Undefined) =>
            /\ req[r].nfetch = 1
            /\ req[r].fetched = req[r].url
            /\ req[r].pc = "cf_fetch" => Outcome(req[r]) = "pending"
            /\ (req[r].pc = "done" /\ req[r].net # Undefined) =>
                /\ req[r].settle = "resolved" /\ req[r].value = req[r].net
                /\ req[r].wpc # "none" <=> (req[r].net.ok /\ req[r].net.type # "opaque")
            /\ (req[r].pc = "done" /\ req[r].net = Undefined) =>
                /\ req[r].settle = "rejected"
                /\ req[r].wpc = "none"

\* the steps that change the storage while requests are served
C5_Step ==
    /\ \A r \in Reqs :
        (req[r].branch = "cf" /\ PutDone(r)) =>
            /\ CurrentEntry(caches', req[r].url) = req[r].net
            /\ \A i \in 1..Len(caches) :
                caches[i].name # CACHE_NAME => caches'[i] = caches[i]
    /\ (wstate = "activated" /\ caches' # caches) =>
            \E r \in Reqs : req[r].wpc \in {"open", "put"} /\ req'[r].wpc \in {"put", "stored"}

\* C5: a cache-first request whose lookup found nothing issues exactly one
\* fetch, of U; the network response is what the page gets; a write of it under
\* U to the current generation is started exactly when it has a success status
\* and is not opaque (the entry is that response when the write completes);
\* when the fetch fails the rejection reaches the page and nothing is written.
\* The storage changes only where a started write completes or creates the
\* current generation.
C5_CacheFirstMiss == [][C5_State' /\ C5_Step]_vars

\* one cache-first miss stored the network response, another one failed
C5_Witness ==
    \E r, q \in Reqs :
        /\ req[r].branch = "cf" /\ req[r].cached = Undefined /\ req[r].pc = "done"
        /\ req[r].wpc = "stored" /\ CurrentEntry(caches, req[r].url) = req[r].net
        /\ req[q].branch = "cf" /\ req[q].cached = Undefined /\ req[q].pc = "done"
        /\ req[q].settle = "rejected"

\* the name carries the system's prefix
Prefixed(name) == StartsWith(name, Prefix)

\* the caches of the storage that do not carry the prefix, in order
Foreign(cs) == SelectSeq(cs, LAMBDA c : ~Prefixed(c.name))

\* the shell assets the current generation holds
ShellPresent ==
    {i \in ShellIdx : ShellUrl(location, i) \in DOMAIN EntriesOf(caches, CACHE_NAME)}

\* the storage once the activate phase has completed
C6_State ==
    apc = "done" =>
        /\ HasCache(caches, CACHE_NAME)
        /\ \A i \in 1..Len(caches) :
            Prefixed(caches[i].name) => caches[i].name = CACHE_NAME
        /\ \A i \in 1..Len(names) :
            (Prefixed(names[i]) /\ names[i] # CACHE_NAME) => ~HasCache(caches, names[i])
        /\ \A i \in 1..Len(names) :
            ~Prefixed(names[i]) => HasCache(caches, names[i])

\* a step of the activate phase
C6_Step ==
    wstate = "activating" =>
        /\ HasCache(caches', CACHE_NAME)
        /\ EntriesOf(caches', CACHE_NAME) = EntriesOf(caches, CACHE_NAME)
        /\ Foreign(caches') = Foreign(caches)

\* C6: when the activate phase has completed, every generation that carried
\* the prefix and is not the current one has been deleted and the current
\* generation exists; while the phase runs, no step changes the entries of the
\* current generation or any cache without the prefix.
C6_ActivateCleanup == [][C6_State' /\ C6_Step]_vars

\* activation has completed in a storage that held two stale generations and
\* a cache of another application
C6_Witness ==
    /\ wstate = "activated"
    /\ Cardinality(StaleNames(names)) = 2
    /\ ~HasCache(caches, StaleName)
    /\ EntriesOf(caches, OtherName) = OtherCache.entries
    /\ ShellPresent = ShellIdx

\* C7 as stated: whenever a strategy answers a request from the cache, the
\* response is the current generation's entry for U.
C7_Original ==
    [][\A r \in Reqs :
        (/\ req'[r].settle = "resolved" /\ req[r].settle = "pending"
         /\ req'[r].cached # Undefined /\ req'[r].value = req'[r].cached) =>
            req'[r].value = CurrentEntry(caches, req[r].url)]_vars

\* C8: an install whose batch failed has written none of the shell assets to
\* the current generation: the generation never holds part of the shell, and
\* an install that succeeds, at the first attempt or at a retry, has issued
\* the fetches of all N assets in that attempt.
C8_InstallAtomic ==
    /\ ShellPresent = {} \/ ShellPresent = ShellIdx
    /\ (ipc = "failed" \/ wstate = "redundant") => ShellPresent = {}
    /\ ipc \in {"addAll", "done"} => ifetches = Len(SHELL_ASSETS)
    /\ ipc = "done" => (batch = ShellIdx /\ ShellPresent = ShellIdx)

\* a retried install failed after some of its assets had been fetched
C8_Witness ==
    /\ attempts > 1
    /\ ipc = "failed"
    /\ batch # {}
    /\ HasCache(caches, CACHE_NAME)

\* C9 as stated: skip waiting is requested only once the pre-population of the
\* shell has completed successfully.
C9_Original == skipWaiting => ipc = "done"

\* C9, amended: skip waiting is requested when the install handler runs,
\* before the pre-population has settled and whatever its outcome; the worker
\* is installed, activating or activated only when the pre-population has
\* completed successfully, and a worker whose install batch failed is
\* redundant and never reaches the activate phase.
C9_SkipWaiting ==
    /\ wstate \in {"installing", "installed", "activating", "activated"} => skipWaiting
    /\ wstate \in {"installed", "activating", "activated"} =>
        (ipc = "done" /\ ShellPresent = ShellIdx)
    /\ ipc = "failed" => (wstate = "redundant" /\ apc = "idle")
    /\ apc # "idle" => ipc = "done"

\* skip waiting has been requested while the pre-population is under way
C9_Witness ==
    /\ wstate = "installing"
    /\ skipWaiting
    /\ ipc = "addAll"
    /\ batch # ShellIdx

\* C10 as stated: the client pages are controlled by this worker only when no
\* stale generation with the prefix exists any more.
C10_Original ==
    claimed =>
        \A i \in 1..Len(caches) : Prefixed(caches[i].name) => caches[i].name = CACHE_NAME

\* a response the handlers may store: success status and not opaque
Eligible(resp) == resp.ok /\ resp.type # "opaque"

\* the names of the caches of storage cs
NamesOf(cs) == {cs[i].name : i \in 1..Len(cs)}

\* the states of a request whose fetch has brought a response
C11_State ==
    \A r \in Reqs :
        (req[r].branch \in {"cf", "swr", "cdn", "default"} /\ req[r].net # Undefined) =>
            /\ req[r].wpc # "none" =>
                /\ Eligible(req[r].net)
                /\ req[r].branch = "default" =>
                    Origin(UrlOf(req[r].url)) = Origin(location)
            /\ (~Eligible(req[r].net) /\ req[r].cached = Undefined) =>
                (req[r].settle = "resolved" /\ req[r].value = req[r].net)

\* a step of the serving worker that changes what a cache holds for a URL
C11_Step ==
    (wstate = "activated" /\ caches' # caches) =>
        \A n \in NamesOf(caches) \cup NamesOf(caches') : \A u \in UrlIds :
            Lookup(EntriesOf(caches', n), u) # Lookup(EntriesOf(caches, n), u) =>
                \E r \in Reqs :
                    /\ PutDone(r)
                    /\ req[r].url = u
                    /\ n = CACHE_NAME
                    /\ Lookup(EntriesOf(caches', n), u) = req[r].net
                    /\ Eligible(req[r].net)
                    /\ req[r].branch = "default" => Origin(UrlOf(u)) = Origin(location)

\* C11: a handler starts a cache write for U only when the network response
\* has a success status and is not opaque, and in the default branch only when
\* U is of the worker's own origin as well; a response with another status or
\* an opaque one is what the page gets and it is never stored: an entry of a
\* cache changes only when the put of an eligible response completes.
C11_WriteEligibility == [][C11_State' /\ C11_Step]_vars

\* a cross-origin request of the default branch got a successful response that
\* was not stored, a same-origin one had its response stored, and a request
\* for a URL the current generation holds got an error status
C11_Witness ==
    \E r, q \in Reqs :
        /\ req[r].branch = "default" /\ req[r].pc = "done"
        /\ Origin(UrlOf(req[r].url)) # Origin(location)
        /\ req[r].net # Undefined /\ req[r].net.ok /\ req[r].value = req[r].net
        /\ req[r].wpc = "none"
        /\ CurrentEntry(caches, req[r].url) = Undefined
        /\ req[q].net # Undefined /\ ~req[q].net.ok
        /\ CurrentEntry(caches, req[q].url) \notin {Undefined, req[q].net}

\* C12: a cache write that fails, at caches.open or at cache.put, is logged as
\* a warning and leaves the request settled with the response it would have
\* had with a successful write.
C12_Original ==
    \A r \in Reqs :
        req[r].wpc \in {"openfailed", "putfailed"} =>
            /\ req[r].warned
            /\ req[r].settle = "resolved"
            /\ req[r].value \in {req[r].net, req[r].cached}
            /\ req[r].value # Undefined

C14_State ==
    \A r \in Reqs :
        (req[r].pc # "idle"
            /\ (req[r].method # "GET" \/ ~StartsWith(UrlOf(req[r].url).protocol, Http))) =>
            /\ req[r].pc = "passthrough"
            /\ req[r].branch = "none"
            /\ Outcome(req[r]) = "passthrough"
            /\ req[r].value = Undefined
            /\ req[r].nfetch = 0
            /\ req[r].net = Undefined
            /\ req[r].cached = Undefined
            /\ req[r].wpc = "none"

\* the step in which the listener runs for such a request
C14_Step ==
    \A r \in Reqs :
        (req[r].pc = "idle" /\ req'[r].pc = "passthrough") => caches' = caches

\* C14: for a request whose method is not GET or whose scheme does not begin
\* with http the listener returns without calling respondWith: no response is
\* supplied, no fetch is issued, no cache is read or written, and the storage
\* is the same after the listener has run.
C14_PassThrough == [][C14_State' /\ C14_Step]_vars

\* a POST request and a GET request for a blob: URL have both been passed
\* through while the current generation holds entries
C14_Witness ==
    \E r, q \in Reqs :
        /\ req[r].pc = "passthrough" /\ req[r].method = "POST"
        /\ req[q].pc = "passthrough" /\ req[q].method = "GET"
        /\ ~StartsWith(UrlOf(req[q].url).protocol, Http)
        /\ EntriesOf(caches, CACHE_NAME) # NoEntries

(***************************************************************************)
(* The classifier on its own: an activated worker that gets one request    *)
(* for a URL assembled from the parts below, and records the strategy the  *)
(* listener picks for it.  Here the request record holds the URL itself.   *)
(***************************************************************************)
CdnHost == "www.gstatic.com"

ClsHosts == {AppHost, CdnHost, "cdn.example.org"}

HexDir == <<"/", "0", "1", "2", "3", "4", "5", "6", "7", "8", "9", "a", "b", "/">>

ClsDirs == {<<"/">>, <<"/", "l", "i", "b", "/">>, HexDir}

Hex10 == <<"3", "f", "9", "a", "1", "b", "2", "c", "7", "d">>

Hex9 == <<"3", "f", "9", "a", "1", "b", "2", "c", "7">>

UpperHex10 == <<"3", "F", "9", "A", "1", "B", "2", "C", "7", "D">>

S_app == <<"a", "p", "p">>

S_compose == <<"c", "o", "m", "p", "o", "s", "e", "A", "p", "p">>

ClsStems ==
    {<<>>, S_app, S_compose, S_app \o <<".">> \o Hex10, S_app \o <<".">> \o Hex9,
     S_app \o <<".">> \o UpperHex10}

E_js == <<".", "j", "s">>

E_wasm == <<".", "w", "a", "s", "m">>

E_mjs == <<".", "m", "j", "s">>

ClsExts ==
    {<<>>, E_js, E_wasm, E_mjs, <<".", "c", "s", "s">>, <<".", "h", "t", "m", "l">>,
     <<".", "j", "s", "o", "n">>}

\* the URLs the classifier is run on
ClsUrls ==
    {Url(HttpsColon, h, d \o s \o e) : h \in ClsHosts, d \in ClsDirs, s \in ClsStems,
                                       e \in ClsExts}

InitClassify ==
    /\ location = Prod
    /\ caches = <<[name |-> CACHE_NAME, entries |-> NoEntries]>>
    /\ wstate = "activated"
    /\ attempts = 1
    /\ ipc = "done"
    /\ batch = {}
    /\ ifetches = 0
    /\ skipWaiting = TRUE
    /\ apc = "done"
    /\ names = <<>>
    /\ pendingDel = {}
    /\ claimReq = TRUE
    /\ claimed = TRUE
    /\ req = [r \in Reqs |-> IdleReq]

\* the listener runs for a GET request of one of the URLs, up to the choice
\* of the strategy
ClassifyEvent ==
    /\ wstate = "activated"
    /\ claimed
    /\ req[1].pc = "idle"
    /\ \E url \in ClsUrls :
        /\ Intercepted("GET", url)
        /\ Set(1, [req[1] EXCEPT !.pc = "classified", !.method = "GET", !.url = url,
                                 !.branch = Branch(url, location)])
    /\ UNCHANGED <<location, caches, lifeVars, actVars>>

NextClassify == ClassifyEvent

SpecClassify == InitClassify /\ [][NextClassify]_vars

\* path holds n consecutive characters of the set cs
HasRun(path, cs, n) ==
    \E i \in 1..Len(path) :
        i + n - 1 <= Len(path) /\ \A j \in i..(i + n - 1) : path[j] \in cs

UpperHexChars == {"A", "B", "C", "D", "E", "F"}

\* C15: every URL gets one strategy out of the four, the one of the first test
\* that holds in the order cache-first, app shell, CDN, default; a path that
\* ends in .wasm or .mjs is cache-first on every hostname, the CDN's included,
\* and a URL of the CDN host gets the CDN strategy only when its path passes
\* neither the cache-first nor the app-shell test.
C15_Classification ==
    \A r \in Reqs :
        req[r].pc = "classified" =>
            LET url == req[r].url
                path == url.pathname
                b == req[r].branch
                cf == isCacheFirstAsset(url)
                shell == isAppShellAsset(url)
                cdn == isFirebaseCDN(url)
            IN  /\ b \in {"cf", "swr", "cdn", "default"}
                /\ b = "cf" <=> cf
                /\ b = "swr" <=> (~cf /\ shell)
                /\ b = "cdn" <=> (~cf /\ ~shell /\ cdn)
                /\ b = "default" <=> (~cf /\ ~shell /\ ~cdn)
                /\ (EndsWith(path, E_wasm) \/ EndsWith(path, E_mjs)) => b = "cf"
                /\ (url.hostname = CdnHost /\ ~EndsWith(path, E_wasm) /\ ~EndsWith(path, E_mjs)
                        /\ ~EndsWith(path, E_js) /\ ~shell) => b = "cdn"

\* a .wasm URL of the CDN host was classified cache-first
C15_Witness ==
    \E r \in Reqs :
        /\ req[r].pc = "classified"
        /\ req[r].url.hostname = CdnHost
        /\ EndsWith(req[r].url.pathname, E_wasm)
        /\ req[r].branch = "cf"

P_app == <<"/">> \o S_app \o E_js

P_hashed == <<"/">> \o S_app \o <<".">> \o Hex10 \o E_js

\* the rule for .js paths and shell paths, for the characters cs counted as
\* hexadecimal
JsRule(cs) ==
    \A r \in Reqs :
        req[r].pc = "classified" =>
            LET url == req[r].url
                path == url.pathname
                b == req[r].branch
            IN  /\ EndsWith(path, E_js) => (b = "cf" <=> HasRun(path, cs, HexRunMin))
                /\ path = P_hashed => b = "cf"
                /\ (path = P_app /\ url.hostname # CdnHost) => b = "default"
                /\ path \in {P_root, P_compose} => b = "swr"
                /\ (EndsWith(path, <<"/">> \o S_compose \o E_js)
                        /\ HasRun(path, cs, HexRunMin)) => b = "cf"

\* C16 as stated: a path ending in .js is cache-first exactly when it holds a
\* run of at least 10 hexadecimal characters, of either case; / and
\* /composeApp.js are app shell; a composeApp.js path with such a run is
\* cache-first.
C16_Original == JsRule(HexChars \cup UpperHexChars)

\* C16: a path ending in .js is cache-first exactly when it holds a run of at
\* least 10 characters out of 0-9 and lowercase a-f (/app.3f9a1b2c7d.js is
\* cache-first, /app.js off the CDN host is default); / and /composeApp.js are
\* app shell, and a composeApp.js path with such a run is cache-first.
C16_JsRule == JsRule(HexChars)

\* a composeApp.js path with a hexadecimal directory was classified
\* cache-first, having both a run of ten and the shell file name
C16_Witness ==
    \E r \in Reqs :
        /\ req[r].pc = "classified"
        /\ req[r].url.pathname = HexDir \o S_compose \o E_js
        /\ req[r].branch = "cf"

\* C19: in the network-first branches (CDN and default) the cache is looked
\* up only after the fetch has rejected: a fetch that resolves, with an error
\* status too, settles the request with that response at once, without a
\* cache lookup, even when a cache holds an entry for U.
C19_FallbackOnlyOnReject ==
    \A r \in Reqs :
        req[r].branch \in {"cdn", "default"} =>
            /\ req[r].net # Undefined =>
                /\ req[r].pc = "done"
                /\ req[r].settle = "resolved"
                /\ req[r].value = req[r].net
                /\ req[r].cached = Undefined
                /\ req[r].nfetch = 1
            /\ req[r].pc = "nf_fallback" => req[r].net = Undefined
            /\ req[r].cached # Undefined => req[r].net = Undefined

\* a network-first request got the error response of the network while a
\* cache holds an entry for its URL
C19_Witness ==
    \E r \in Reqs :
        /\ req[r].branch \in {"cdn", "default"}
        /\ req[r].net # Undefined /\ ~req[r].net.ok /\ req[r].net.type # "opaque"
        /\ req[r].value = req[r].net
        /\ Holders(caches, req[r].url) # {}

\* the requests for url id u that the listener took into a strategy
RequestsFor(u) == {r \in Reqs : req[r].url = u /\ req[r].pc \notin {"idle", "passthrough"}}

\* every request for u has been answered and its write, if any, has ended
Quiet(u) ==
    \A r \in RequestsFor(u) :
        req[r].pc = "done" /\ req[r].wpc \in {"none", "stored", "openfailed", "putfailed"}

\* the responses the requests for u have stored
Stored(u) == {req[r].net : r \in {q \in RequestsFor(u) : req[q].wpc = "stored"}}

\* C18: once every request for U has been answered and every write for U has
\* ended, the current generation's entry for U is the response of one of the
\* requests whose write completed (each an eligible response of a successful
\* fetch), whatever the order of the puts; when no write completed the entry
\* is the one the requests found.
C18_LastWriteWins ==
    \A u \in UrlIds :
        (wstate = "activated" /\ RequestsFor(u) # {} /\ Quiet(u)) =>
            /\ Stored(u) # {} =>
                /\ CurrentEntry(caches, u) \in Stored(u)
                /\ Eligible(CurrentEntry(caches, u))
            /\ Stored(u) = {} => CurrentEntry(caches, u) \in {Undefined, ShellResp}

\* two network-first requests for the same URL, fetched in the order they
\* were made, have both stored their responses and the entry left is the
\* response of the first: the put of the second came first
C18_Witness ==
    \E r, q \in Reqs :
        /\ r < q
        /\ req[r].url = req[q].url
        /\ req[r].branch = "default" /\ req[q].branch = "default"
        /\ Quiet(req[r].url)
        /\ req[r].wpc = "stored" /\ req[q].wpc = "stored"
        /\ req[r].net # req[q].net
        /\ CurrentEntry(caches, req[r].url) = req[r].net

(***************************************************************************)
(* Two versions.  The previous deployment of this script, with             *)
(* CACHE_VERSION 'v2', is the active worker and answers the pages' requests *)
(* while this version installs and activates.  The request records are the *)
(* old worker's; its handlers are the ones above, with its own CACHE_NAME  *)
(* as the target of the writes.                                            *)
(***************************************************************************)
\* CACHE_NAME as the previous version computes it
OldCacheName == StaleName

InitVersions ==
    /\ location = Prod
    /\ caches = <<StaleCache(OldCacheName)>>
    /\ wstate = "parsed"
    /\ attempts = 1
    /\ ipc = "idle"
    /\ batch = {}
    /\ ifetches = 0
    /\ skipWaiting = FALSE
    /\ apc = "idle"
    /\ names = <<>>
    /\ pendingDel = {}
    /\ claimReq = FALSE
    /\ claimed = FALSE
    /\ req = [r \in Reqs |-> IdleReq]

\* a page makes a request while the old worker is its controller
OldFetchEvent(r) ==
    /\ ~claimed
    /\ Listener(r)
    /\ UNCHANGED <<location, caches, lifeVars, actVars>>

\* the old worker's write: caches.open(CACHE_NAME) resolves
OldWriteOpen(r) ==
    /\ req[r].wpc = "open"
    /\ caches' = CachesOpen(caches, OldCacheName)
    /\ Set(r, [req[r] EXCEPT !.wpc = "put"])
    /\ UNCHANGED <<location, lifeVars, actVars>>

\* the old worker's write: cache.put completes, on the cache object it opened
OldWritePut(r) ==
    /\ req[r].wpc = "put"
    /\ caches' = CachePut(caches, OldCacheName, req[r].url, req[r].net)
    /\ Set(r, [req[r] EXCEPT !.wpc = "stored"])
    /\ UNCHANGED <<location, lifeVars, actVars>>

NextVersions ==
    \/ InstallDispatch
    \/ InstallOpen
    \/ InstallOpenFail
    \/ \E i \in ShellIdx : InstallAssetOk(i)
    \/ \E i \in ShellIdx : InstallAssetFail(i)
    \/ InstallCommit
    \/ InstallRetry
    \/ ActivateDispatch
    \/ ActivateKeys
    \/ \E n \in pendingDel : ActivateDelete(n)
    \/ ActivateDone
    \/ ClaimClients
    \/ \E r \in Reqs : OldFetchEvent(r)
    \/ \E r \in Reqs : CFMatch(r)
    \/ \E r \in Reqs : CFResolve(r)
    \/ \E r \in Reqs : CFReject(r)
    \/ \E r \in Reqs : SWRMatch(r)
    \/ \E r \in Reqs : SWRResolve(r)
    \/ \E r \in Reqs : SWRReject(r)
    \/ \E r \in Reqs : NFResolve(r)
    \/ \E r \in Reqs : NFReject(r)
    \/ \E r \in Reqs : NFFallback(r)
    \/ \E r \in Reqs : OldWriteOpen(r)
    \/ \E r \in Reqs : WriteOpenFail(r)
    \/ \E r \in Reqs : OldWritePut(r)
    \/ \E r \in Reqs : WritePutFail(r)

SpecVersions == InitVersions /\ [][NextVersions]_vars

\* the names the new version's activate has picked for deletion
Doomed == IF apc \in {"deleting", "done"} THEN StaleNames(names) ELSE {}

\* a step in which the old worker's write acts on its generation
OldWriteStep ==
    \E r \in Reqs : req[r].wpc \in {"open", "put"} /\ req'[r].wpc \in {"put", "stored"}

\* C17: while the old version completes its requests and the new version
\* installs and activates, the old version's writes never act on a generation
\* name the new version's activate deletes, and a stale generation that has
\* been deleted never exists again.
C17_Original ==
    [][ /\ OldWriteStep => OldCacheName \notin Doomed
        /\ \A n \in Doomed :
            (n \notin pendingDel /\ ~HasCache(caches, n)) => ~HasCache(caches', n)
      ]_vars

\* the new version is activated and claimed the pages, its activate has
\* deleted the old generation, and the old generation exists again
C17_Resurrected ==
    /\ wstate = "activated" /\ claimed
    /\ OldCacheName \in Doomed /\ pendingDel = {}
    /\ HasCache(caches, OldCacheName)

(***************************************************************************)
(* Progress.  The worker is activated and controls the pages, which is     *)
(* when fetch events reach it; from there on only the fetch listener runs. *)
(* The host settles every cache lookup and every network fetch a handler   *)
(* waits for; nothing is assumed of the fire-and-forget writes or of the   *)
(* pages.                                                                  *)
(***************************************************************************)
\* the current generation as a successful install leaves it
ShellCache(loc) ==
    [name |-> CACHE_NAME,
     entries |-> [u \in {ShellUrl(loc, i) : i \in ShellIdx} |-> ShellResp]]

\* the storage once install and activate have completed, on an origin that
\* had no caches before
ServeCaches(loc) == {<<ShellCache(loc)>>}

InitServe ==
    /\ location \in Locations
    /\ caches \in ServeCaches(location)
    /\ wstate = "activated"
    /\ attempts = 1
    /\ ipc = "done"
    /\ batch = {}
    /\ ifetches = 0
    /\ skipWaiting = TRUE
    /\ apc = "done"
    /\ names = <<>>
    /\ pendingDel = {}
    /\ claimReq = TRUE
    /\ claimed = TRUE
    /\ req = [r \in Reqs |-> IdleReq]

\* the step that settles what request r waits for: at most one of these is
\* enabled at a time, the one of the request's position
Settles(r) ==
    \/ CFMatch(r)
    \/ SWRMatch(r)
    \/ NFFallback(r)
    \/ GuardResolve(r) \/ GuardReject(r)
    \/ CFResolve(r) \/ CFReject(r)
    \/ SWRResolve(r) \/ SWRReject(r)
    \/ NFResolve(r) \/ NFReject(r)

NextServe ==
    \/ \E r \in Reqs : FetchEvent(r)
    \/ \E r \in Reqs : GuardResolve(r)
    \/ \E r \in Reqs : GuardReject(r)
    \/ \E r \in Reqs : CFMatch(r)
    \/ \E r \in Reqs : CFResolve(r)
    \/ \E r \in Reqs : CFReject(r)
    \/ \E r \in Reqs : SWRMatch(r)
    \/ \E r \in Reqs : SWRResolve(r)
    \/ \E r \in Reqs : SWRReject(r)
    \/ \E r \in Reqs : NFResolve(r)
    \/ \E r \in Reqs : NFReject(r)
    \/ \E r \in Reqs : NFFallback(r)
    \/ \E r \in Reqs : WriteOpen(r)
    \/ \E r \in Reqs : WriteOpenFail(r)
    \/ \E r \in Reqs : WritePut(r)
    \/ \E r \in Reqs : WritePutFail(r)

FairSpec == InitServe /\ [][NextServe]_vars /\ \A r \in Reqs : WF_vars(Settles(r))

\* C20: a request the listener answers (respondWith called) is settled in the
\* end, with a response or a failure, as long as its lookups and fetches
\* settle; no write has to make a step for that, and while a write is under
\* way the request it belongs to is settled already.
C20_EventuallyResolves ==
    /\ \A r \in Reqs :
        (req[r].settle = "pending") ~> (req[r].settle \in {"resolved", "rejected"})
    /\ [](\A r \in Reqs : req[r].wpc \in {"open", "put"} => req[r].settle = "resolved")

\* a request has its response while its cache write has not completed
C20_Witness ==
    \E r \in Reqs :
        /\ Outcome(req[r]) = "response"
        /\ req[r].value = req[r].net
        /\ req[r].wpc \in {"open", "put"}

====
